---- MODULE Spec2Model ----
(***************************************************************************)
(* Model of BACK.py: the analyze_company request pipeline, the competitor  *)
(* ranking get_top_competitors and the provider-facing helper functions.   *)
(*                                                                         *)
(* Python values are encoded as follows.  None for a string is the string  *)
(* NoneStr; None for a number is NoneNum; a value that is a list or None   *)
(* is a record [isNone, items].  Prices are integers in thousandths.       *)
(***************************************************************************)
EXTENDS Integers, Sequences, FiniteSets, TLC

VARIABLES pc, company_name, page_title, summary, ticker, stock_prices,
          time_labels, competitors, all_competitors, remaining,
          competitor_data, processed_tickers, visited, lacking,
          top_competitors, response, called, extracted, data

vars == <<pc, company_name, page_title, summary, ticker, stock_prices,
          time_labels, competitors, all_competitors, remaining,
          competitor_data, processed_tickers, visited, lacking,
          top_competitors, response, called, extracted, data>>

----------------------------------------------------------------------------
(* Bounds *)

\* longest bestMatches list a SYMBOL_SEARCH response carries
MaxMatches == 2

\* longest price history (rows of the history frame) the provider delivers
MaxHistory == 2

----------------------------------------------------------------------------
(* Python values *)

NoneStr == "<None>"
NoneNum == -1

PyNone == [isNone |-> TRUE, items |-> <<>>]
PyList(s) == [isNone |-> FALSE, items |-> s]

\* truth value of a str-or-None
TruthyStr(s) == s # NoneStr /\ s # ""

\* truth value of a number-or-None
TruthyNum(n) == n # NoneNum /\ n # 0

\* truth value of a list-or-None
TruthyList(l) == ~l.isNone /\ Len(l.items) > 0

Range(s) == {s[i] : i \in 1..Len(s)}

Reverse(s) == [i \in 1..Len(s) |-> s[Len(s) + 1 - i]]

Min(a, b) == IF a < b THEN a ELSE b

SeqsUpTo(S, n) == UNION {[1..k -> S] : k \in 0..n}

----------------------------------------------------------------------------
(* Symbol search: get_ticker_from_alpha_vantage *)

TargetRegion == "United States"

Regions == {TargetRegion, "United Kingdom"}

Tickers == {"AAA", "BBB", "CCC", "DDD"}

Matches == [symbol : Tickers, region : Regions]

\* what requests.get(...).json() yields: an exception, a JSON object
\* without "bestMatches", or one with a list of matches
SearchResponses ==
    {[raised |-> TRUE, hasMatches |-> FALSE, bestMatches |-> <<>>],
     [raised |-> FALSE, hasMatches |-> FALSE, bestMatches |-> <<>>]}
    \cup {[raised |-> FALSE, hasMatches |-> TRUE, bestMatches |-> m] :
            m \in SeqsUpTo(Matches, MaxMatches)}

\* the for loop over data["bestMatches"], from position i on
RECURSIVE ScanMatches(_, _)
ScanMatches(matches, i) ==
    IF i > Len(matches) THEN NoneStr
    ELSE IF matches[i].region = TargetRegion THEN matches[i].symbol
    ELSE ScanMatches(matches, i + 1)

\* seeded fault: only the top match is looked at
get_ticker_top_match_only(resp) ==
    IF resp.raised THEN NoneStr
    ELSE IF resp.hasMatches /\ Len(resp.bestMatches) > 0
              /\ resp.bestMatches[1].region = TargetRegion
         THEN resp.bestMatches[1].symbol
    ELSE NoneStr

get_ticker_from_alpha_vantage(resp) ==
    IF resp.raised THEN NoneStr
    ELSE IF resp.hasMatches THEN ScanMatches(resp.bestMatches, 1)
    ELSE NoneStr

\* every value a symbol search can hand back to its caller
SymbolResults == {get_ticker_from_alpha_vantage(r) : r \in SearchResponses}

NoData == [raised |-> FALSE, hasMatches |-> FALSE, bestMatches |-> <<>>]

----------------------------------------------------------------------------
(* Market data: yfinance *)

\* the market capitalisation the provider holds for each ticker
MarketCapOf(t) ==
    CASE t = "AAA" -> 50
      [] t = "BBB" -> 200
      [] t = "CCC" -> 50
      [] OTHER     -> 75

\* stock.info: the lookup raises, the key is missing, or a value is there
InfoOutcomes(t) ==
    {[raised |-> TRUE, hasCap |-> FALSE, marketCap |-> 0],
     [raised |-> FALSE, hasCap |-> FALSE, marketCap |-> 0],
     [raised |-> FALSE, hasCap |-> TRUE, marketCap |-> 0],
     [raised |-> FALSE, hasCap |-> TRUE, marketCap |-> MarketCapOf(t)]}

fetch_market_cap(info) ==
    IF info.raised THEN NoneNum
    ELSE IF info.hasCap THEN info.marketCap
    ELSE NoneNum

\* rows of the 3-month history frame: trading day and raw close
HistoryLen(t) == IF t = "AAA" THEN 1 ELSE MaxHistory

RawClose(t, i) ==
    (CASE t = "AAA" -> 101236
       [] t = "BBB" -> 99004
       [] t = "CCC" -> 45675
       [] OTHER     -> 45665) + 1001 * (i - 1)

HistoryFrame(t) == [i \in 1..HistoryLen(t) |-> [day |-> i, close |-> RawClose(t, i)]]

\* stock.history(period="3mo"): raises, an empty frame, or the frame
HistoryOutcomes(t) ==
    {[raised |-> TRUE, rows |-> <<>>],
     [raised |-> FALSE, rows |-> <<>>],
     [raised |-> FALSE, rows |-> HistoryFrame(t)]}

\* history.index.strftime('%Y-%m-%d') of trading day d
StrFTime(d) ==
    CASE d = 1 -> "2024-01-02"
      [] d = 2 -> "2024-01-03"
      [] d = 3 -> "2024-01-04"
      [] OTHER -> "2024-01-05"

\* round(price, 2) on thousandths: nearest hundredth, ties to even
Round2(p) ==
    LET q == p \div 10
        r == p % 10
    IN 10 * (IF r > 5 \/ (r = 5 /\ q % 2 = 1) THEN q + 1 ELSE q)

\* returns <<stock_prices, time_labels>>, closes rounded
fetch_stock_price(hist) ==
    IF hist.raised THEN <<PyNone, PyNone>>
    ELSE <<PyList([i \in 1..Len(hist.rows) |-> Round2(hist.rows[i].close)]),
           PyList([i \in 1..Len(hist.rows) |-> StrFTime(hist.rows[i].day)])>>

\* returns <<stock_prices, time_labels>>, closes as delivered
get_stock_price_for_competitor(hist) ==
    IF hist.raised THEN <<PyNone, PyNone>>
    ELSE <<PyList([i \in 1..Len(hist.rows) |-> hist.rows[i].close]),
           PyList([i \in 1..Len(hist.rows) |-> StrFTime(hist.rows[i].day)])>>

----------------------------------------------------------------------------
(* Encyclopedia: fetch_wikipedia_summary *)

NoPageMessage == "No Wikipedia page found for the given company."
WikiErrorMessage == "Error fetching Wikipedia summary: error"

\* wikipedia.search and wikipedia.summary: either may raise, the search
\* may find nothing, the summary may be empty
WikiOutcomes ==
    {[searchRaised |-> TRUE, results |-> <<>>, summaryRaised |-> FALSE, text |-> ""],
     [searchRaised |-> FALSE, results |-> <<>>, summaryRaised |-> FALSE, text |-> ""],
     [searchRaised |-> FALSE, results |-> <<"Acme Corporation">>, summaryRaised |-> TRUE, text |-> ""],
     [searchRaised |-> FALSE, results |-> <<"Acme Corporation">>, summaryRaised |-> FALSE, text |-> ""],
     [searchRaised |-> FALSE, results |-> <<"Acme Corporation", "Acme (band)">>, summaryRaised |-> FALSE,
      text |-> "Acme Corporation is a company. It makes anvils."]}

\* returns <<page_title, summary>>
fetch_wikipedia_summary(w) ==
    IF w.searchRaised THEN <<NoneStr, WikiErrorMessage>>
    ELSE IF Len(w.results) > 0
         THEN IF w.summaryRaised THEN <<NoneStr, WikiErrorMessage>>
              ELSE <<w.results[1], w.text>>
    ELSE <<NoneStr, NoPageMessage>>

----------------------------------------------------------------------------
(* Generative text: query_gemini_llm *)

\* l.strip() of the lines the model uses
Strip(l) ==
    CASE l = " Alpha "        -> "Alpha"
      [] l = "Technology : "  -> "Technology :"
      [] OTHER                -> l

\* generate_content: raises, or text; the text is given as its blocks
\* (content.split("\n\n")), each block as its lines
\* (line.strip().split("\n"))
LlmOutcomes ==
    {[raised |-> TRUE, blocks |-> <<>>],
     [raised |-> FALSE, blocks |-> << <<"">> >>],
     [raised |-> FALSE, blocks |-> << <<"Technology : ", " Alpha ", "Beta">> >>],
     [raised |-> FALSE,
      blocks |-> << <<"Technology :", "Alpha", "Beta">>,
                    <<"Here are the sectors">>,
                    <<"Cloud :", "Beta", "Gamma">> >>]}

\* the sectors parsed from blocks i.. of the text
RECURSIVE ParseBlocks(_, _)
ParseBlocks(blocks, i) ==
    IF i > Len(blocks) THEN <<>>
    ELSE LET lines == blocks[i]
         IN IF Len(lines) > 1
            THEN <<[name |-> Strip(lines[1]),
                    competitors |-> [k \in 1..(Len(lines) - 1) |-> Strip(lines[k + 1])]]>>
                 \o ParseBlocks(blocks, i + 1)
            ELSE ParseBlocks(blocks, i + 1)

query_gemini_llm(g) ==
    IF g.raised THEN PyNone ELSE PyList(ParseBlocks(g.blocks, 1))

Placeholder == <<[name |-> "No Sectors", competitors |-> <<"No competitors found.">>]>>

\* [comp for sector in competitors for comp in sector["competitors"]]
RECURSIVE Flatten(_, _)
Flatten(sectors, i) ==
    IF i > Len(sectors) THEN <<>>
    ELSE sectors[i].competitors \o Flatten(sectors, i + 1)

----------------------------------------------------------------------------
(* Ranking: get_top_competitors *)

\* number of records get_top_competitors keeps
Limit == 3

market_cap_key(x) == x.market_cap

\* list.insert of record x into the ascending list s behind every element
\* whose key is not larger (the stable forward sort)
RECURSIVE InsertAsc(_, _)
InsertAsc(s, x) ==
    IF s = <<>> THEN <<x>>
    ELSE IF market_cap_key(s[Len(s)]) <= market_cap_key(x) THEN Append(s, x)
    ELSE Append(InsertAsc(SubSeq(s, 1, Len(s) - 1), x), s[Len(s)])

RECURSIVE SortAsc(_)
SortAsc(s) ==
    IF s = <<>> THEN <<>>
    ELSE InsertAsc(SortAsc(SubSeq(s, 1, Len(s) - 1)), s[Len(s)])

\* seeded fault: a descending sort that is not stable
SortedReverseUnstable(s) == Reverse(SortAsc(s))

\* sorted(s, key=market_cap, reverse=True): the list is reversed, sorted
\* forward with a stable sort, and reversed again
SortedReverse(s) == Reverse(SortAsc(Reverse(s)))

\* s[:n]
Take(s, n) == SubSeq(s, 1, Min(n, Len(s)))

\* seeded fault: the processed set is never consulted
IsNewTickerAlways(t, processed) == TruthyStr(t)

\* if ticker and ticker not in processed_tickers
IsNewTicker(t, processed) == TruthyStr(t) /\ t \notin processed

\* seeded fault: the market cap is not looked at
HasMarketDataNoCap(market_cap, prices, labels) ==
    TruthyList(prices) /\ TruthyList(labels)

\* if market_cap and stock_prices and time_labels
HasMarketData(market_cap, prices, labels) ==
    TruthyNum(market_cap) /\ TruthyList(prices) /\ TruthyList(labels)

\* seeded fault: an accepted ticker is not remembered
AddProcessedNever(processed, t) == processed

\* processed_tickers.add(ticker)
AddProcessed(processed, t) == processed \cup {t}

CompetitorRecord(name, t, market_cap, prices, labels) ==
    [name |-> name, ticker |-> t, market_cap |-> market_cap,
     stock_prices |-> prices.items, time_labels |-> labels.items,
     stock_price |-> prices.items[Len(prices.items)]]

----------------------------------------------------------------------------
(* analyze_company *)

MissingInput == "No company name provided."
DescriptionNotFound == "Could not find company description."
TickerNotFound == "Could not find ticker symbol."
PriceDataUnavailable == "Could not fetch stock prices."

Pending == "<pending>"

Failure(msg) ==
    [success |-> FALSE, error |-> msg, description |-> "", ticker |-> NoneStr,
     stock_prices |-> PyNone, time_labels |-> PyNone, competitors |-> <<>>,
     top_competitors |-> <<>>]

\* request.args.get("company_name"): the parameter may be missing
CompanyNames == {NoneStr, "", "   ", "Acme"}

\* the lists get_top_competitors is applied to on its own
CandidateLists ==
    {<<>>,
     <<"Acme Corp", "ACME">>,
     <<"Alpha", "Beta", "Alpha", "Gamma", "Delta">>}

Fresh ==
    /\ page_title = NoneStr
    /\ summary = ""
    /\ ticker = NoneStr
    /\ stock_prices = PyNone
    /\ time_labels = PyNone
    /\ competitors = <<>>
    /\ remaining = {}
    /\ competitor_data = <<>>
    /\ processed_tickers = {}
    /\ visited = <<>>
    /\ lacking = {}
    /\ top_competitors = <<>>
    /\ response = Failure(Pending)
    /\ called = {}
    /\ extracted = PyNone

\* a request arrives at /analyze_company
Init ==
    /\ pc = "analyze_company"
    /\ company_name \in CompanyNames
    /\ all_competitors = <<>>
    /\ data = NoData
    /\ Fresh

\* seeded fault: only a missing parameter is rejected
NoCompanyNameMissingOnly(name) == name = NoneStr

\* if not company_name
NoCompanyName(name) == ~TruthyStr(name)

CheckInput ==
    /\ pc = "analyze_company"
    /\ IF NoCompanyName(company_name)
       THEN /\ response' = Failure(MissingInput)
            /\ pc' = "done"
       ELSE /\ pc' = "fetch_wikipedia_summary"
            /\ UNCHANGED response
    /\ UNCHANGED <<company_name, page_title, summary, ticker, stock_prices,
                   time_labels, competitors, all_competitors, remaining,
                   competitor_data, processed_tickers, visited, lacking,
                   top_competitors, called, extracted, data>>

LookupDescription ==
    /\ pc = "fetch_wikipedia_summary"
    /\ \E w \in WikiOutcomes :
         LET r == fetch_wikipedia_summary(w)
         IN /\ page_title' = r[1]
            /\ summary' = r[2]
            /\ IF ~TruthyStr(r[2])
               THEN /\ response' = Failure(DescriptionNotFound)
                    /\ pc' = "done"
               ELSE /\ pc' = "get_ticker_from_alpha_vantage"
                    /\ UNCHANGED response
    /\ called' = called \cup {"fetch_wikipedia_summary"}
    /\ UNCHANGED <<company_name, ticker, stock_prices, time_labels,
                   competitors, all_competitors, remaining, competitor_data,
                   processed_tickers, visited, lacking, top_competitors, extracted, data>>

ResolveTicker ==
    /\ pc = "get_ticker_from_alpha_vantage"
    /\ \E t \in SymbolResults :
         /\ ticker' = t
         /\ IF ~TruthyStr(t)
            THEN /\ response' = Failure(TickerNotFound)
                 /\ pc' = "done"
            ELSE /\ pc' = "fetch_stock_price"
                 /\ UNCHANGED response
    /\ called' = called \cup {"get_ticker_from_alpha_vantage"}
    /\ UNCHANGED <<company_name, page_title, summary, stock_prices,
                   time_labels, competitors, all_competitors, remaining,
                   competitor_data, processed_tickers, visited, lacking,
                   top_competitors, extracted, data>>

\* seeded fault: only a failed fetch is rejected, an empty series passes
NoPricesNoneOnly(prices, labels) == prices.isNone \/ labels.isNone

\* if not stock_prices or not time_labels
NoPrices(prices, labels) == ~TruthyList(prices) \/ ~TruthyList(labels)

FetchPrices ==
    /\ pc = "fetch_stock_price"
    /\ \E h \in HistoryOutcomes(ticker) :
         LET r == fetch_stock_price(h)
         IN /\ stock_prices' = r[1]
            /\ time_labels' = r[2]
            /\ IF NoPrices(r[1], r[2])
               THEN /\ response' = Failure(PriceDataUnavailable)
                    /\ pc' = "done"
               ELSE /\ pc' = "query_gemini_llm"
                    /\ UNCHANGED response
    /\ called' = called \cup {"fetch_stock_price"}
    /\ UNCHANGED <<company_name, page_title, summary, ticker, competitors,
                   all_competitors, remaining, competitor_data,
                   processed_tickers, visited, lacking, top_competitors, extracted, data>>

\* seeded fault: only None is replaced, an empty list is kept
OrPlaceholderNoneOnly(r) == IF r.isNone THEN Placeholder ELSE r.items

\* if not competitors: competitors = [placeholder]
OrPlaceholder(r) == IF ~TruthyList(r) THEN Placeholder ELSE r.items

ExtractCompetitors ==
    /\ pc = "query_gemini_llm"
    /\ \E g \in LlmOutcomes :
         LET r == query_gemini_llm(g)
             sectors == OrPlaceholder(r)
         IN /\ competitors' = sectors
            /\ all_competitors' = Flatten(sectors, 1)
            /\ extracted' = r
    /\ called' = called \cup {"query_gemini_llm"}
    /\ pc' = "get_top_competitors"
    /\ UNCHANGED <<company_name, page_title, summary, ticker, stock_prices,
                   time_labels, remaining, competitor_data, processed_tickers,
                   visited, lacking, top_competitors, response, data>>

\* competitor_data = [], processed_tickers = set(), set(competitors)
RankCall ==
    /\ pc = "get_top_competitors"
    /\ competitor_data' = <<>>
    /\ processed_tickers' = {}
    /\ remaining' = Range(all_competitors)
    /\ visited' = <<>>
    /\ lacking' = {}
    /\ called' = called \cup {"get_top_competitors"}
    /\ pc' = "for_competitor"
    /\ UNCHANGED <<company_name, page_title, summary, ticker, stock_prices,
                   time_labels, competitors, all_competitors, top_competitors,
                   response, extracted, data>>

\* the provider had no market cap (or a zero one) or no price rows
MarketDataLacking(info, h) ==
    info.raised \/ ~info.hasCap \/ info.marketCap = 0 \/ h.raised \/ h.rows = <<>>

\* one pass of the for loop; the set yields its elements in any order
RankIter ==
    /\ pc = "for_competitor"
    /\ remaining # {}
    /\ \E competitor \in remaining, t \in SymbolResults :
         /\ remaining' = remaining \ {competitor}
         /\ visited' = Append(visited, [name |-> competitor, ticker |-> t])
         /\ IF IsNewTicker(t, processed_tickers)
            THEN \E info \in InfoOutcomes(t), h \in HistoryOutcomes(t) :
                   LET market_cap == fetch_market_cap(info)
                       r == get_stock_price_for_competitor(h)
                   IN /\ IF HasMarketData(market_cap, r[1], r[2])
                         THEN /\ competitor_data' =
                                   Append(competitor_data,
                                          CompetitorRecord(competitor, t, market_cap, r[1], r[2]))
                              /\ processed_tickers' = AddProcessed(processed_tickers, t)
                         ELSE UNCHANGED <<competitor_data, processed_tickers>>
                      /\ lacking' = IF MarketDataLacking(info, h)
                                    THEN lacking \cup {competitor} ELSE lacking
                      /\ called' = called \cup {"get_ticker_from_alpha_vantage",
                                                "fetch_market_cap",
                                                "get_stock_price_for_competitor"}
            ELSE /\ lacking' = IF t = NoneStr THEN lacking \cup {competitor} ELSE lacking
                 /\ called' = called \cup {"get_ticker_from_alpha_vantage"}
                 /\ UNCHANGED <<competitor_data, processed_tickers>>
    /\ UNCHANGED <<pc, company_name, page_title, summary, ticker, stock_prices,
                   time_labels, competitors, all_competitors, top_competitors,
                   response, extracted, data>>

\* sorted(...)[:3] and return
RankReturn ==
    /\ pc = "for_competitor"
    /\ remaining = {}
    /\ top_competitors' = Take(SortedReverse(competitor_data), Limit)
    /\ pc' = "returned"
    /\ UNCHANGED <<company_name, page_title, summary, ticker, stock_prices,
                   time_labels, competitors, all_competitors, remaining,
                   competitor_data, processed_tickers, visited, lacking,
                   response, called, extracted, data>>

\* return jsonify(success=True, ...)
Respond ==
    /\ pc = "returned"
    /\ response' = [success |-> TRUE, error |-> "", description |-> summary,
                    ticker |-> ticker, stock_prices |-> stock_prices,
                    time_labels |-> time_labels, competitors |-> competitors,
                    top_competitors |-> top_competitors]
    /\ pc' = "done"
    /\ UNCHANGED <<company_name, page_title, summary, ticker, stock_prices,
                   time_labels, competitors, all_competitors, remaining,
                   competitor_data, processed_tickers, visited, lacking,
                   top_competitors, called, extracted, data>>

Next ==
    \/ CheckInput
    \/ LookupDescription
    \/ ResolveTicker
    \/ FetchPrices
    \/ ExtractCompetitors
    \/ RankCall
    \/ RankIter
    \/ RankReturn
    \/ Respond

Spec == Init /\ [][Next]_vars

----------------------------------------------------------------------------
(* get_top_competitors on its own *)

InitRank ==
    /\ pc = "get_top_competitors"
    /\ company_name = NoneStr
    /\ all_competitors \in CandidateLists
    /\ data = NoData
    /\ Fresh

NextRank ==
    \/ RankCall
    \/ RankIter
    \/ RankReturn

SpecRank == InitRank /\ [][NextRank]_vars

----------------------------------------------------------------------------
(* get_ticker_from_alpha_vantage on its own *)

InitResolve ==
    /\ pc = "symbol_search"
    /\ company_name = "Acme"
    /\ all_competitors = <<>>
    /\ data \in SearchResponses
    /\ Fresh

\* the function body applied to the response in data
ScanResponse ==
    /\ pc = "symbol_search"
    /\ ticker' = get_ticker_from_alpha_vantage(data)
    /\ called' = called \cup {"get_ticker_from_alpha_vantage"}
    /\ pc' = "resolved"
    /\ UNCHANGED <<company_name, page_title, summary, stock_prices,
                   time_labels, competitors, all_competitors, remaining,
                   competitor_data, processed_tickers, visited, lacking,
                   top_competitors, response, extracted, data>>

NextResolve == ScanResponse

SpecResolve == InitResolve /\ [][NextResolve]_vars

----------------------------------------------------------------------------
(* Properties of analyze_company, checked under Spec *)

Blank(name) == name = "" \/ name = "   "

\* C1 as stated: an empty or whitespace-only company_name gets the
\* MISSING_INPUT failure and no provider is ever called for it.
C1_BlankNameRejected ==
    Blank(company_name) =>
        /\ called = {}
        /\ pc = "done" => response = Failure(MissingInput)

\* C1 amended: a missing or empty company_name gets the MISSING_INPUT
\* failure and no provider is ever called for it.
C1_EmptyNameRejected ==
    company_name \in {NoneStr, ""} =>
        /\ called = {}
        /\ pc \in {"analyze_company", "done"}
        /\ pc = "done" => response = Failure(MissingInput)

C1_Witness ==
    /\ pc = "done"
    /\ company_name = ""
    /\ response = Failure(MissingInput)

\* C2: when fetch_wikipedia_summary reports absent (no page title), the
\* request ends at once with the DESCRIPTION_NOT_FOUND failure and the
\* symbol search is never called.
C2_AbsentDescriptionAborts ==
    ("fetch_wikipedia_summary" \in called /\ page_title = NoneStr) =>
        /\ pc = "done"
        /\ response = Failure(DescriptionNotFound)
        /\ "get_ticker_from_alpha_vantage" \notin called

\* C3: when query_gemini_llm fails and the request succeeds, the response
\* carries the placeholder sector and an empty top_competitors list.
C3_ExtractorFailureGivesEmptyRanking ==
    (pc = "done" /\ response.success /\ extracted.isNone) =>
        /\ response.competitors = Placeholder
        /\ response.top_competitors = <<>>

\* C8: once the symbol search for the company comes back absent the request
\* ends with TICKER_NOT_FOUND, once its price history comes back absent or
\* empty it ends with PRICE_DATA_UNAVAILABLE, and in both cases neither
\* query_gemini_llm nor get_top_competitors is called.
C8_FailFast ==
    /\ ("get_ticker_from_alpha_vantage" \in called /\ ticker = NoneStr) =>
          /\ pc = "done"
          /\ response = Failure(TickerNotFound)
          /\ called \cap {"query_gemini_llm", "get_top_competitors"} = {}
    /\ ("fetch_stock_price" \in called /\ ~TruthyList(stock_prices)) =>
          /\ pc = "done"
          /\ response = Failure(PriceDataUnavailable)
          /\ called \cap {"query_gemini_llm", "get_top_competitors"} = {}

C8_Witness ==
    /\ pc = "done"
    /\ summary # ""
    /\ ticker \in Tickers
    /\ stock_prices = PyList(<<>>)
    /\ response = Failure(PriceDataUnavailable)

FailureMessages ==
    {MissingInput, DescriptionNotFound, TickerNotFound, PriceDataUnavailable}

FullyPopulated(r) ==
    /\ r.success
    /\ TruthyStr(r.description)
    /\ TruthyStr(r.ticker)
    /\ TruthyList(r.stock_prices)
    /\ TruthyList(r.time_labels)
    /\ Len(r.stock_prices.items) = Len(r.time_labels.items)
    /\ Len(r.competitors) > 0
    /\ \A i \in 1..Len(r.competitors) : Len(r.competitors[i].competitors) > 0
    /\ Len(r.top_competitors) <= Limit

\* C9: a request that has ended carries either a failure envelope with one
\* of the four error messages or a fully populated success result; before
\* the end no response has been produced.
C9_FailureOrFullResult ==
    /\ pc # "done" => response = Failure(Pending)
    /\ pc = "done" =>
          \/ ~response.success /\ response.error \in FailureMessages
          \/ FullyPopulated(response)

C9_Witness ==
    /\ pc = "done"
    /\ response.success
    /\ Len(response.competitors) = 2
    /\ Len(response.stock_prices.items) = MaxHistory
    /\ Len(response.top_competitors) = Limit

----------------------------------------------------------------------------
(* Properties of get_top_competitors, checked under SpecRank *)

\* C4: no two records kept or returned by get_top_competitors carry the
\* same ticker.
C4_UniqueTickers ==
    /\ \A i, j \in 1..Len(competitor_data) :
          competitor_data[i].ticker = competitor_data[j].ticker => i = j
    /\ \A i, j \in 1..Len(top_competitors) :
          top_competitors[i].ticker = top_competitors[j].ticker => i = j

C4_Witness ==
    /\ pc = "returned"
    /\ Len(visited) = 2
    /\ visited[1].ticker = visited[2].ticker
    /\ Len(top_competitors) = 1

\* position of an accepted record in competitor_data
Pos(r) == CHOOSE i \in 1..Len(competitor_data) : competitor_data[i] = r

\* r comes before q in descending market cap order, ties by acceptance
Before(r, q) ==
    \/ r.market_cap > q.market_cap
    \/ r.market_cap = q.market_cap /\ Pos(r) < Pos(q)

\* C5: the returned list holds min(3, accepted) accepted records, in
\* descending market cap order with ties in acceptance order, and every
\* accepted record left out comes after all returned ones in that order.
C5_TopThreeStableDescending ==
    pc = "returned" =>
        /\ Len(top_competitors) = Min(Limit, Len(competitor_data))
        /\ Range(top_competitors) \subseteq Range(competitor_data)
        /\ \A i, j \in 1..Len(top_competitors) :
              i < j => Before(top_competitors[i], top_competitors[j])
        /\ \A q \in Range(competitor_data) \ Range(top_competitors) :
              \A i \in 1..Len(top_competitors) : Before(top_competitors[i], q)

C5_Witness ==
    /\ pc = "returned"
    /\ Len(competitor_data) = 4
    /\ competitor_data[1].market_cap = competitor_data[3].market_cap
    /\ competitor_data[1].market_cap < competitor_data[2].market_cap
    /\ competitor_data[1].market_cap < competitor_data[4].market_cap
    /\ top_competitors[Limit] = competitor_data[1]

\* the candidates, in iteration order, that resolved to ticker t
ResolversOf(t) == {i \in 1..Len(visited) : visited[i].ticker = t}

\* those of them whose market cap and price history were present
SuppliedResolversOf(t) == {i \in ResolversOf(t) : visited[i].name \notin lacking}

First(S) == CHOOSE i \in S : \A j \in S : i <= j

\* C6 as stated: the name of an accepted record is the first candidate, in
\* iteration order, that resolved to the record's ticker.
C6_FirstResolverWins ==
    \A r \in Range(competitor_data) :
        r.name = visited[First(ResolversOf(r.ticker))].name

\* C6 amended: the name of an accepted record is the first candidate, in
\* iteration order, that resolved to the record's ticker and whose market
\* cap and price history were present; no other candidate resolving to that
\* ticker is accepted.
C6_FirstSuppliedResolverWins ==
    \A r \in Range(competitor_data) :
        /\ SuppliedResolversOf(r.ticker) # {}
        /\ r.name = visited[First(SuppliedResolversOf(r.ticker))].name
        /\ \A i \in ResolversOf(r.ticker) :
              visited[i].name # r.name =>
                  \A q \in Range(competitor_data) : q.name # visited[i].name

C6_Witness ==
    /\ pc = "returned"
    /\ Len(visited) = 4
    /\ visited[1].ticker = visited[2].ticker
    /\ visited[2].ticker = visited[3].ticker
    /\ visited[1].name \in lacking
    /\ Len(competitor_data) = 1
    /\ competitor_data[1].name = visited[2].name

\* C10: every accepted record carries the ticker the symbol search gave for
\* its own name, a market cap, a non-empty price series of the same length
\* as its labels and the last close as stock_price; a candidate for which
\* the ticker, the market cap or the price history was absent or empty is
\* not among the records.
C10_AcceptedRecordsComplete ==
    /\ \A r \in Range(competitor_data) \cup Range(top_competitors) :
          /\ \E i \in 1..Len(visited) :
                visited[i].name = r.name /\ visited[i].ticker = r.ticker
          /\ r.ticker \in Tickers
          /\ r.market_cap > 0
          /\ Len(r.stock_prices) > 0
          /\ Len(r.time_labels) = Len(r.stock_prices)
          /\ r.stock_price = r.stock_prices[Len(r.stock_prices)]
          /\ r.name \notin lacking
    /\ \A i \in 1..Len(visited) :
          visited[i].ticker = NoneStr => visited[i].name \in lacking

C10_Witness ==
    /\ pc = "returned"
    /\ Len(top_competitors) = 2
    /\ Len(top_competitors[1].stock_prices) = MaxHistory
    /\ top_competitors[1].stock_price # top_competitors[1].stock_prices[1]
    /\ Cardinality(lacking) = 2

----------------------------------------------------------------------------
(* Properties of get_ticker_from_alpha_vantage, checked under SpecResolve *)

\* positions of the matches of the response whose region is the target
TargetPositions ==
    IF data.raised \/ ~data.hasMatches THEN {}
    ELSE {i \in 1..Len(data.bestMatches) : data.bestMatches[i].region = TargetRegion}

\* C7: the result is the symbol of the first match, in the order given,
\* whose region is "United States", and None when there is no such match,
\* no match list, or the request raised.
C7_FirstTargetRegionMatch ==
    pc = "resolved" =>
        IF TargetPositions = {} THEN ticker = NoneStr
        ELSE ticker = data.bestMatches[First(TargetPositions)].symbol

C7_Witness ==
    /\ pc = "resolved"
    /\ Len(data.bestMatches) = MaxMatches
    /\ TargetPositions = {MaxMatches}
    /\ ticker = data.bestMatches[MaxMatches].symbol

====
